---- MODULE Spec2Model ----
(***************************************************************************)
(* Model of the abTestHeroBanner Lightning web component                   *)
(* (force-app/main/default/lwc/abTestHeroBanner/abTestHeroBanner.js).      *)
(*                                                                         *)
(* The browser's localStorage, the fields of the current component         *)
(* instance, the calls dispatched to the Apex method logAction and the     *)
(* state of the promises they returned are the state.  Every method of the *)
(* class is an operator from a component state (a record) to the component *)
(* state after the method; the actions are the entry points the framework, *)
(* the host page and the user can drive.                                   *)
(***************************************************************************)
EXTENDS Integers, Sequences, FiniteSets, Bags, TLC

(***************************************************************************)
(* JavaScript values of the stateful part.  Strings are TLA+ strings; the  *)
(* two non-string values the code meets are given names no string of the   *)
(* program equals.                                                         *)
(***************************************************************************)
null == "<null>"
undefined == "<undefined>"

\* JavaScript truthiness of a string, null or undefined (the operand of ! and &&)
Truthy(v) == v # null /\ v # undefined /\ v # ""

STORAGE_KEY_ASSIGNMENT == "AB_TEST_ASSIGNMENT_"
STORAGE_KEY_LOGGED == "AB_LOGGED_"
STORAGE_KEY_VISITOR == "DXFORCE_VISITOR_ID"

(***************************************************************************)
(* Bounds and input sets                                                   *)
(***************************************************************************)
\* number of identifiers generateUUID is let to produce
MaxUUIDs == 2
\* cap on the number of dispatched logAction calls kept in the history
MaxCalls == 2

\* longest content key among the inputs of extractContentKey
MaxKeyLen == 2
\* longest tail appended to the heads of the urls given to resolveUrl
MaxTailLen == 2

\* the test identifiers the host configures
ConfiguredTestIds == {"promo1", "promo2"}
\* values the public property testId can hold: unset, or a test name
TestIds == {undefined} \cup ConfiguredTestIds

\* the n-th identifier generateUUID returns: 122 random bits, so successive
\* identifiers are taken to differ
UUIDName(n) == "00000000-0000-4000-8000-00000000000" \o ToString(n)
UUIDs == {UUIDName(n) : n \in 1..MaxUUIDs}

\* the browser tabs of the visitor that are open side by side
Tabs == {"tab1", "tab2"}

PreviewModes == {"Auto", "Force A", "Force B"}
ActionTypes == {"View", "Click"}
Variants == {"A", "B"}

VARIABLES
    storage,          \* localStorage: a function from the keys present to their values
    testId,           \* this.testId
    previewMode,      \* this._previewMode
    assignedVariant,  \* this.assignedVariant
    visitorId,        \* this.visitorId
    connected,        \* connectedCallback has run on the current instance
    rendered,         \* the current instance has completed a render pass
    autoRendered,     \* history: the current instance has completed a render pass in
                      \* Auto mode with the testId it has now
    uuidsGenerated,   \* number of identifiers generateUUID has returned
    calls,            \* bag of the logAction calls made: payload and state of its promise
    consoleErrors,    \* bag of the payloads whose failure console.error reported
    lastOp,           \* history: the hook, setter or handler of the instance that the
                      \* last step ran; "none" when it ran none of them
    lastChanged,      \* history: the storage keys whose value the last step changed
    basePath,         \* the imported @salesforce/community/basePath
    helperFn,         \* the presentation helper that was called, "none" before the call
    helperArg,        \* its argument
    helperRet,        \* how the call completed
    tabs              \* the instances in the browser tabs of one visitor that run side
                      \* by side on the shared storage: fields, and position in the
                      \* method under way

helperVars == <<basePath, helperFn, helperArg, helperRet>>

vars == <<storage, testId, previewMode, assignedVariant, visitorId, connected,
          rendered, autoRendered, uuidsGenerated, calls, consoleErrors, lastOp, lastChanged, helperVars, tabs>>

(***************************************************************************)
(* localStorage                                                            *)
(***************************************************************************)
getItem(st, key) == IF key \in DOMAIN st THEN st[key] ELSE null

setItem(st, key, value) ==
    [k \in (DOMAIN st) \cup {key} |-> IF k = key THEN value ELSE st[k]]

EmptyStorage == [k \in {} |-> ""]

(***************************************************************************)
(* The component state the methods work on: the instance fields together   *)
(* with the storage and the remote calls they reach.                       *)
(***************************************************************************)
This ==
    [storage |-> storage, testId |-> testId, previewMode |-> previewMode,
     assignedVariant |-> assignedVariant, visitorId |-> visitorId,
     uuidsGenerated |-> uuidsGenerated,
     calls |-> calls, consoleErrors |-> consoleErrors]

\* a new instance on the same page origin: field initialisers of the class
NewInstance(s) ==
    [s EXCEPT !.testId = undefined, !.previewMode = "Auto",
              !.assignedVariant = undefined, !.visitorId = undefined]

\* the instance a tab constructs for a page that configures test t; pc is the
\* position of the instance, read the value its last getItem returned
NewTab(t) ==
    [testId |-> t, assignedVariant |-> undefined, visitorId |-> undefined,
     rendered |-> FALSE, pc |-> "new", read |-> null]

\* the Apex method: records the payload and returns a pending promise
logAction(s, payload) ==
    [s EXCEPT !.calls = s.calls (+) SetToBag({[payload |-> payload, promise |-> "pending"]})]

\* generateUUID(): the component after the call, the identifier in field uuid
generateUUID(s) ==
    [state |-> [s EXCEPT !.uuidsGenerated = s.uuidsGenerated + 1],
     uuid |-> UUIDName(s.uuidsGenerated + 1)]

\* initializeVisitorId() as it would be if it generated an id on every activation
initializeVisitorIdRegenerate(s) ==
    LET g == generateUUID(s)
    IN [g.state EXCEPT !.storage = setItem(s.storage, STORAGE_KEY_VISITOR, g.uuid),
                       !.visitorId = g.uuid]

\* initializeVisitorId()
initializeVisitorId(s) ==
    LET vid == getItem(s.storage, STORAGE_KEY_VISITOR) IN
    IF ~Truthy(vid)
    THEN LET g == generateUUID(s)
         IN [g.state EXCEPT !.storage = setItem(s.storage, STORAGE_KEY_VISITOR, g.uuid),
                            !.visitorId = g.uuid]
    ELSE [s EXCEPT !.visitorId = vid]

\* initializeAssignment() as it would be if Auto mode drew without reading storage
initializeAssignmentRedraw(s, coin) ==
    IF s.previewMode = "Force A" THEN [s EXCEPT !.assignedVariant = "A"]
    ELSE IF s.previewMode = "Force B" THEN [s EXCEPT !.assignedVariant = "B"]
    ELSE IF ~Truthy(s.testId) THEN [s EXCEPT !.assignedVariant = "A"]
    ELSE LET v == IF coin THEN "A" ELSE "B" IN
         [s EXCEPT !.assignedVariant = v,
                   !.storage = setItem(s.storage, STORAGE_KEY_ASSIGNMENT \o s.testId, v)]

\* initializeAssignment() as it would be if a forced variant were persisted
initializeAssignmentPersistForced(s, coin) ==
    LET key == STORAGE_KEY_ASSIGNMENT \o s.testId
        storedAssignment == IF Truthy(s.testId) THEN getItem(s.storage, key) ELSE null
        v == IF s.previewMode = "Force A" THEN "A"
             ELSE IF s.previewMode = "Force B" THEN "B"
             ELSE IF ~Truthy(s.testId) THEN "A"
             ELSE IF Truthy(storedAssignment) THEN storedAssignment
             ELSE IF coin THEN "A" ELSE "B"
    IN IF Truthy(s.testId)
       THEN [s EXCEPT !.assignedVariant = v, !.storage = setItem(s.storage, key, v)]
       ELSE [s EXCEPT !.assignedVariant = v]

\* initializeAssignment() as it would be if it drew a variant without a testId
initializeAssignmentDrawWithoutTest(s, coin) ==
    IF s.previewMode = "Force A" THEN [s EXCEPT !.assignedVariant = "A"]
    ELSE IF s.previewMode = "Force B" THEN [s EXCEPT !.assignedVariant = "B"]
    ELSE IF ~Truthy(s.testId) THEN [s EXCEPT !.assignedVariant = IF coin THEN "A" ELSE "B"]
    ELSE
      LET key == STORAGE_KEY_ASSIGNMENT \o s.testId
          storedAssignment == getItem(s.storage, key)
      IN IF Truthy(storedAssignment)
         THEN [s EXCEPT !.assignedVariant = storedAssignment]
         ELSE LET v == IF coin THEN "A" ELSE "B" IN
              [s EXCEPT !.assignedVariant = v,
                        !.storage = setItem(s.storage, key, v)]

\* initializeAssignment(); coin is the outcome of Math.random() < 0.5
\* variant: the fresh draw is returned but never written to storage
initializeAssignmentNoPersist(s, coin) ==
    IF s.previewMode = "Force A" THEN [s EXCEPT !.assignedVariant = "A"]
    ELSE IF s.previewMode = "Force B" THEN [s EXCEPT !.assignedVariant = "B"]
    ELSE IF ~Truthy(s.testId) THEN [s EXCEPT !.assignedVariant = "A"]
    ELSE
      LET key == STORAGE_KEY_ASSIGNMENT \o s.testId
          storedAssignment == getItem(s.storage, key)
      IN IF Truthy(storedAssignment)
         THEN [s EXCEPT !.assignedVariant = storedAssignment]
         ELSE [s EXCEPT !.assignedVariant = IF coin THEN "A" ELSE "B"]

initializeAssignment(s, coin) ==
    IF s.previewMode = "Force A" THEN [s EXCEPT !.assignedVariant = "A"]
    ELSE IF s.previewMode = "Force B" THEN [s EXCEPT !.assignedVariant = "B"]
    ELSE IF ~Truthy(s.testId) THEN [s EXCEPT !.assignedVariant = "A"]
    ELSE
      LET key == STORAGE_KEY_ASSIGNMENT \o s.testId
          storedAssignment == getItem(s.storage, key)
      IN IF Truthy(storedAssignment)
         THEN [s EXCEPT !.assignedVariant = storedAssignment]
         ELSE LET v == IF coin THEN "A" ELSE "B" IN
              [s EXCEPT !.assignedVariant = v,
                        !.storage = setItem(s.storage, key, v)]

\* tryLogMetric() as it would be if it did not store the flag
tryLogMetricNoFlag(s, actionType) ==
    LET logKey == STORAGE_KEY_LOGGED \o s.testId \o "_" \o actionType
        hasLogged == getItem(s.storage, logKey)
    IN IF ~Truthy(hasLogged)
       THEN logAction(s, [testId |-> s.testId,
                          variant |-> s.assignedVariant,
                          actionType |-> actionType,
                          visitorId |-> s.visitorId])
       ELSE s

\* tryLogMetric() as it would be if the flag were keyed by the test alone
tryLogMetricSharedKey(s, actionType) ==
    LET logKey == STORAGE_KEY_LOGGED \o s.testId
        hasLogged == getItem(s.storage, logKey)
    IN IF ~Truthy(hasLogged)
       THEN LET s1 == logAction(s, [testId |-> s.testId,
                                    variant |-> s.assignedVariant,
                                    actionType |-> actionType,
                                    visitorId |-> s.visitorId])
            IN [s1 EXCEPT !.storage = setItem(s1.storage, logKey, "true")]
       ELSE s

\* tryLogMetric(actionType)
tryLogMetric(s, actionType) ==
    LET logKey == STORAGE_KEY_LOGGED \o s.testId \o "_" \o actionType
        hasLogged == getItem(s.storage, logKey)
    IN IF ~Truthy(hasLogged)
       THEN LET s1 == logAction(s, [testId |-> s.testId,
                                    variant |-> s.assignedVariant,
                                    actionType |-> actionType,
                                    visitorId |-> s.visitorId])
            IN [s1 EXCEPT !.storage = setItem(s1.storage, logKey, "true")]
       ELSE s

\* variant: activation resolves the assignment only
connectedCallbackNoVisitorId(s, coin) ==
    initializeAssignment(s, coin)

\* connectedCallback()
connectedCallback(s, coin) ==
    initializeAssignment(initializeVisitorId(s), coin)

\* variant: a render pass reports nothing
renderedCallbackNoView(s) ==
    s

\* renderedCallback()
renderedCallback(s) ==
    IF Truthy(s.assignedVariant) /\ Truthy(s.testId) /\ s.previewMode = "Auto"
    THEN tryLogMetric(s, "View")
    ELSE s

\* handleButtonClick() as it would be without the test of previewMode
handleButtonClickAnyMode(s) ==
    IF Truthy(s.assignedVariant) /\ Truthy(s.testId)
    THEN tryLogMetric(s, "Click")
    ELSE s

\* handleButtonClick()
handleButtonClick(s) ==
    IF Truthy(s.assignedVariant) /\ Truthy(s.testId) /\ s.previewMode = "Auto"
    THEN tryLogMetric(s, "Click")
    ELSE s

\* variant: the setter stores the value and does not resolve again
setPreviewModeNoResolve(s, value, coin) ==
    [s EXCEPT !.previewMode = value]

\* set previewMode(value)
setPreviewMode(s, value, coin) ==
    initializeAssignment([s EXCEPT !.previewMode = value], coin)

\* the promise of call c settles with the given outcome
settle(s, c, outcome) ==
    [s EXCEPT !.calls = (s.calls (-) SetToBag({c}))
                        (+) SetToBag({[c EXCEPT !.promise = outcome]})]

\* the catch handler as it would be if a failure cleared the flag for a retry
catchHandlerRetry(s, c) ==
    LET logKey == STORAGE_KEY_LOGGED \o c.payload.testId \o "_" \o c.payload.actionType
    IN [s EXCEPT !.consoleErrors = s.consoleErrors (+) SetToBag({c.payload}),
                 !.storage = [k \in (DOMAIN s.storage) \ {logKey} |-> s.storage[k]]]

\* the catch handler of the promise of call c: console.error
catchHandler(s, c) ==
    [s EXCEPT !.consoleErrors = s.consoleErrors (+) SetToBag({c.payload})]

(***************************************************************************)
(* Presentation helpers.  They work on the characters of strings, so here  *)
(* a string is a sequence of one-character strings, and a JavaScript value *)
(* is a record tagged with its type.                                       *)
(***************************************************************************)
JsUndefined == [type |-> "undefined"]
JsNull == [type |-> "null"]
JsString(cs) == [type |-> "string", chars |-> cs]
JsNumber(cs) == [type |-> "number", text |-> cs]
JsBoolean(b) == [type |-> "boolean", val |-> b]
\* an object: a function from the names of its own properties to their values
JsObject(props) == [type |-> "object", props |-> props]

\* truthiness of a tagged value; the only falsy number JSON.parse yields from
\* the texts of the inputs is 0
JsTruthy(v) ==
    CASE v.type = "undefined" -> FALSE
      [] v.type = "null" -> FALSE
      [] v.type = "string" -> v.chars # <<>>
      [] v.type = "number" -> v.text # <<"0">>
      [] v.type = "boolean" -> v.val
      [] OTHER -> TRUE

\* ref.name for a value that is neither null nor undefined
GetProp(ref, name) ==
    IF ref.type = "object" /\ name \in DOMAIN ref.props
    THEN ref.props[name]
    ELSE JsUndefined

Digits == {"0", "1", "2", "3", "4", "5", "6", "7", "8", "9"}
QUOTE == "\""

StartsWith(cs, prefix) ==
    Len(cs) >= Len(prefix) /\ SubSeq(cs, 1, Len(prefix)) = prefix

\* the least index j >= i with cs[j] = ch, 0 when there is none
IndexFrom(cs, i, ch) ==
    LET S == {j \in i..Len(cs) : cs[j] = ch}
    IN IF S = {} THEN 0 ELSE CHOOSE j \in S : \A k \in S : j <= k

SyntaxError == [ok |-> FALSE]

\* a JSON string literal starting at cs[i] (the inputs hold no escapes)
ParseStringAt(cs, i) ==
    IF i > Len(cs) \/ cs[i] # QUOTE THEN SyntaxError
    ELSE LET j == IndexFrom(cs, i + 1, QUOTE)
         IN IF j = 0 THEN SyntaxError
            ELSE [ok |-> TRUE, value |-> SubSeq(cs, i + 1, j - 1), next |-> j + 1]

\* the members "name":"value" of a JSON object from cs[i] up to the closing brace
RECURSIVE ParseMembers(_, _, _)
ParseMembers(cs, i, props) ==
    LET name == ParseStringAt(cs, i) IN
    IF ~name.ok THEN SyntaxError
    ELSE IF name.next > Len(cs) \/ cs[name.next] # ":" THEN SyntaxError
    ELSE LET val == ParseStringAt(cs, name.next + 1) IN
         IF ~val.ok THEN SyntaxError
         ELSE LET props1 == [n \in (DOMAIN props) \cup {name.value} |->
                                IF n = name.value THEN JsString(val.value)
                                ELSE props[n]]
              IN IF val.next > Len(cs) THEN SyntaxError
                 ELSE IF cs[val.next] = "," THEN ParseMembers(cs, val.next + 1, props1)
                 ELSE IF cs[val.next] = "}" /\ val.next = Len(cs)
                      THEN [ok |-> TRUE, value |-> JsObject(props1)]
                 ELSE SyntaxError

NoProps == [n \in {} |-> JsUndefined]

\* JSON.parse on the texts of the inputs: unsigned integers, the three
\* literals, string literals, and objects with string members
JsonParse(cs) ==
    IF cs = <<>> THEN SyntaxError
    ELSE IF \A i \in 1..Len(cs) : cs[i] \in Digits
    THEN IF Len(cs) > 1 /\ cs[1] = "0" THEN SyntaxError
         ELSE [ok |-> TRUE, value |-> JsNumber(cs)]
    ELSE IF cs = <<"n", "u", "l", "l">> THEN [ok |-> TRUE, value |-> JsNull]
    ELSE IF cs = <<"t", "r", "u", "e">> THEN [ok |-> TRUE, value |-> JsBoolean(TRUE)]
    ELSE IF cs = <<"f", "a", "l", "s", "e">> THEN [ok |-> TRUE, value |-> JsBoolean(FALSE)]
    ELSE IF cs[1] = QUOTE
    THEN LET str == ParseStringAt(cs, 1)
         IN IF str.ok /\ str.next = Len(cs) + 1
            THEN [ok |-> TRUE, value |-> JsString(str.value)]
            ELSE SyntaxError
    ELSE IF cs[1] = "{"
    THEN IF cs = <<"{", "}">> THEN [ok |-> TRUE, value |-> JsObject(NoProps)]
         ELSE ParseMembers(cs, 2, NoProps)
    ELSE SyntaxError

CONTENT_KEY == <<"c", "o", "n", "t", "e", "n", "t", "K", "e", "y">>
ID == <<"i", "d">>

\* a completed call: the value returned, or an exception leaving the function
Return(v) == [threw |-> FALSE, value |-> v]
Throw == [threw |-> TRUE]

\* the try block of extractContentKey
extractContentKeyTry(contentRef) ==
    LET parsed == IF contentRef.type = "string"
                  THEN JsonParse(contentRef.chars)
                  ELSE [ok |-> TRUE, value |-> contentRef]
    IN IF ~parsed.ok THEN Throw
       ELSE LET ref == parsed.value IN
            IF ref.type \in {"null", "undefined"} THEN Throw
            ELSE IF JsTruthy(GetProp(ref, CONTENT_KEY)) THEN Return(GetProp(ref, CONTENT_KEY))
            ELSE IF JsTruthy(GetProp(ref, ID)) THEN Return(GetProp(ref, ID))
            ELSE Return(JsNull)

\* extractContentKey(contentRef)
extractContentKey(contentRef) ==
    IF ~JsTruthy(contentRef) THEN Return(JsNull)
    ELSE LET r == extractContentKeyTry(contentRef) IN
         IF r.threw
         THEN (IF contentRef.type = "string" THEN Return(contentRef) ELSE Return(JsNull))
         ELSE r

SchemePrefixes ==
    {<<"h", "t", "t", "p", ":">>, <<"h", "t", "t", "p", "s", ":">>,
     <<"m", "a", "i", "l", "t", "o", ":">>, <<"t", "e", "l", ":">>}

\* url.match(/^(http|https|mailto|tel):/)
MatchesScheme(cs) == \E p \in SchemePrefixes : StartsWith(cs, p)

\* resolveUrl(url); bp is the imported basePath
resolveUrl(url, bp) ==
    IF ~JsTruthy(url) THEN Return(JsString(<<"#">>))
    ELSE IF MatchesScheme(url.chars) THEN Return(url)
    ELSE LET path == IF StartsWith(url.chars, <<"/">>) THEN url.chars
                     ELSE <<"/">> \o url.chars
         IN Return(JsString((IF bp # <<>> THEN bp ELSE <<>>) \o path))

(***************************************************************************)
(* Inputs of the presentation helpers                                      *)
(***************************************************************************)
\* the strings over alphabet of length at most n
Strings(alphabet, n) == UNION {[1..m -> alphabet] : m \in 0..n}

Keys == Strings({"k", "1", "0"}, MaxKeyLen) \ {<<>>}

TITLE == <<"t", "i", "t", "l", "e">>

\* member lists <<name, value>> of the content references the host supplies
MemberLists ==
    {<<>>}
    \cup {<<<<CONTENT_KEY, k>>>> : k \in Keys}
    \cup {<<<<ID, k>>>> : k \in Keys}
    \cup {<<<<TITLE, k>>>> : k \in Keys}
    \cup {<<<<CONTENT_KEY, <<>>>>, <<ID, k>>>> : k \in Keys}
    \cup {<<<<CONTENT_KEY, k[1]>>, <<ID, k[2]>>>> : k \in Keys \X Keys}

\* the object with the members ms
RECURSIVE ObjectOf(_)
ObjectOf(ms) ==
    IF ms = <<>> THEN NoProps
    ELSE LET front == ObjectOf(SubSeq(ms, 1, Len(ms) - 1))
             last == ms[Len(ms)]
         IN [n \in (DOMAIN front) \cup {last[1]} |->
                IF n = last[1] THEN JsString(last[2]) ELSE front[n]]

\* JSON.stringify of the object with the members ms
RECURSIVE JsonMembers(_)
JsonMembers(ms) ==
    IF ms = <<>> THEN <<>>
    ELSE <<QUOTE>> \o ms[1][1] \o <<QUOTE, ":", QUOTE>> \o ms[1][2] \o <<QUOTE>>
         \o (IF Len(ms) > 1 THEN <<",">> ELSE <<>>) \o JsonMembers(Tail(ms))

JsonStringify(ms) == <<"{">> \o JsonMembers(ms) \o <<"}">>

ContentRefs ==
    {JsUndefined, JsNull, JsString(<<>>)}
    \cup {JsObject(ObjectOf(ms)) : ms \in MemberLists}
    \cup {JsString(JsonStringify(ms)) : ms \in MemberLists}
    \cup {JsString(k) : k \in Keys}
    \cup {JsString(<<QUOTE>> \o k \o <<QUOTE>>) : k \in Keys}
    \cup {JsString(<<"n", "u", "l", "l">>), JsString(<<"t", "r", "u", "e">>)}

UrlHeads ==
    SchemePrefixes
    \cup {<<>>, <<"/">>, <<"/", "/">>, <<"h", "t", "t", "p">>, <<"t", "e", "l">>,
          <<"H", "T", "T", "P", ":">>, <<"f", "t", "p", ":">>,
          <<"x", "h", "t", "t", "p", ":">>}

Urls ==
    {JsUndefined}
    \cup {JsString(h \o t) : h \in UrlHeads, t \in Strings({"f", "/", ":"}, MaxTailLen)}

BasePaths == {<<>>, <<"/", "s">>}

NoCall == [pending |-> TRUE]

(***************************************************************************)
(* Actions                                                                 *)
(***************************************************************************)
\* the instance fields, storage and calls become those of the record s
Becomes(s) ==
    /\ storage' = s.storage
    /\ testId' = s.testId
    /\ previewMode' = s.previewMode
    /\ assignedVariant' = s.assignedVariant
    /\ visitorId' = s.visitorId
    /\ uuidsGenerated' = s.uuidsGenerated
    /\ calls' = s.calls
    /\ consoleErrors' = s.consoleErrors
    /\ lastChanged' = {k \in DOMAIN s.storage : getItem(storage, k) # s.storage[k]}

\* a first visit: nothing stored, a new instance, nothing sent
InitComponent ==
    /\ storage = EmptyStorage
    /\ testId = undefined
    /\ previewMode = "Auto"
    /\ assignedVariant = undefined
    /\ visitorId = undefined
    /\ connected = FALSE
    /\ rendered = FALSE
    /\ autoRendered = FALSE
    /\ uuidsGenerated = 0
    /\ calls = EmptyBag
    /\ consoleErrors = EmptyBag
    /\ lastOp = "none"
    /\ lastChanged = {}
    /\ tabs = [i \in Tabs |-> NewTab(undefined)]

\* the component on a site served from the root path, no helper called
Init ==
    /\ InitComponent
    /\ basePath = <<>>
    /\ helperFn = "none"
    /\ helperArg = JsUndefined
    /\ helperRet = NoCall

\* page (re)load: the framework constructs a new instance; storage stays
Reload ==
    /\ Becomes(NewInstance(This))
    /\ connected' = FALSE
    /\ rendered' = FALSE
    /\ autoRendered' = FALSE
    /\ lastOp' = "none"
    /\ UNCHANGED <<helperVars, tabs>>

\* the host assigns the public property testId
SetTestId ==
    \E t \in TestIds :
        /\ Becomes([This EXCEPT !.testId = t])
        /\ autoRendered' = (autoRendered /\ t = testId)
        /\ lastOp' = "none"
        /\ UNCHANGED <<connected, rendered, helperVars, tabs>>

\* the host assigns the public property previewMode
SetPreviewMode ==
    \E m \in PreviewModes, coin \in BOOLEAN :
        /\ Becomes(setPreviewMode(This, m, coin))
        /\ lastOp' = "setPreviewMode"
        /\ UNCHANGED <<connected, rendered, autoRendered, helperVars, tabs>>

\* the framework inserts the instance into the document
Connect ==
    /\ ~connected
    /\ \E coin \in BOOLEAN :
           /\ connectedCallback(This, coin).uuidsGenerated <= MaxUUIDs
           /\ Becomes(connectedCallback(This, coin))
    /\ connected' = TRUE
    /\ lastOp' = "connect"
    /\ UNCHANGED <<rendered, autoRendered, helperVars, tabs>>

\* the framework finishes a render pass of the connected instance
Render ==
    /\ connected
    /\ BagCardinality(renderedCallback(This).calls) <= MaxCalls
    /\ Becomes(renderedCallback(This))
    /\ rendered' = TRUE
    /\ autoRendered' = (autoRendered \/ (previewMode = "Auto" /\ Truthy(testId)))
    /\ lastOp' = "render"
    /\ UNCHANGED <<connected, helperVars, tabs>>

\* the user clicks the button of the rendered banner
Click ==
    /\ rendered
    /\ BagCardinality(handleButtonClick(This).calls) <= MaxCalls
    /\ Becomes(handleButtonClick(This))
    /\ lastOp' = "click"
    /\ UNCHANGED <<connected, rendered, autoRendered, helperVars, tabs>>

\* A remote call that succeeds or never completes runs no code of the
\* component (no handler is attached to fulfilment), so it is no step.
\* the remote call c fails: the catch handler runs
Reject ==
    \E c \in BagToSet(calls) :
        /\ c.promise = "pending"
        /\ Becomes(catchHandler(settle(This, c, "rejected"), c))
        /\ lastOp' = "none"
        /\ UNCHANGED <<connected, rendered, autoRendered, helperVars, tabs>>

Next ==
    \/ Reload
    \/ SetTestId
    \/ SetPreviewMode
    \/ Connect
    \/ Render
    \/ Click
    \/ Reject

Spec == Init /\ [][Next]_vars

(***************************************************************************)
(* The presentation helpers as a system of their own: the argument is      *)
(* chosen at the start and one call is made.                               *)
(***************************************************************************)
componentVars == <<storage, testId, previewMode, assignedVariant, visitorId, connected,
                   rendered, autoRendered, uuidsGenerated, calls, consoleErrors, lastOp, lastChanged>>

InitHelpers ==
    /\ InitComponent
    /\ basePath \in BasePaths
    /\ helperFn = "none"
    /\ helperArg \in ContentRefs \cup Urls
    /\ helperRet = NoCall

ExtractContentKey ==
    /\ helperFn = "none"
    /\ helperArg \in ContentRefs
    /\ helperFn' = "extractContentKey"
    /\ helperRet' = extractContentKey(helperArg)
    /\ UNCHANGED <<componentVars, tabs, basePath, helperArg>>

ResolveUrl ==
    /\ helperFn = "none"
    /\ helperArg \in Urls
    /\ helperFn' = "resolveUrl"
    /\ helperRet' = resolveUrl(helperArg, basePath)
    /\ UNCHANGED <<componentVars, tabs, basePath, helperArg>>

NextHelpers ==
    \/ ExtractContentKey
    \/ ResolveUrl

SpecHelpers == InitHelpers /\ [][NextHelpers]_vars

(***************************************************************************)
(* Two tabs of one visitor.  Each tab runs its own instance, in the default *)
(* previewMode 'Auto', for the testId its page configures; the tabs share   *)
(* localStorage and the server, and nothing orders the storage accesses of  *)
(* one tab with those of the other.  A method that reads a key and then     *)
(* writes it therefore takes two steps: the getItem, and the rest of the    *)
(* method, which runs on the value that was read.                           *)
(***************************************************************************)
\* the component state as tab i has it when the storage it sees is st
TabThis(i, st) ==
    [storage |-> st, testId |-> tabs[i].testId, previewMode |-> "Auto",
     assignedVariant |-> tabs[i].assignedVariant, visitorId |-> tabs[i].visitorId,
     uuidsGenerated |-> uuidsGenerated,
     calls |-> calls, consoleErrors |-> consoleErrors]

\* storage st as a method sees it whose getItem(key) returned value
AsRead(st, key, value) ==
    IF Truthy(value)
    THEN setItem(st, key, value)
    ELSE [k \in (DOMAIN st) \ {key} |-> st[k]]

\* variant: a setItem does not replace a value that is present
WriteBackKeepFirst(st, seen, after) ==
    LET written == {k \in DOMAIN after : getItem(seen, k) # after[k]}
    IN [k \in (DOMAIN st) \cup written |-> IF k \in DOMAIN st THEN st[k] ELSE after[k]]

\* the setItem calls of a method that saw storage seen and left it as after,
\* applied to storage st: each replaces whatever st holds under its key
WriteBack(st, seen, after) ==
    LET written == {k \in DOMAIN after : getItem(seen, k) # after[k]}
    IN [k \in (DOMAIN st) \cup written |-> IF k \in written THEN after[k] ELSE st[k]]

\* tab i moves to position pc holding the value read, rend tells whether it has
\* completed a render pass; s is the component state its step leaves
TabBecomes(i, s, pc, read, rend) ==
    /\ tabs' = [tabs EXCEPT ![i].assignedVariant = s.assignedVariant,
                            ![i].visitorId = s.visitorId,
                            ![i].rendered = rend,
                            ![i].pc = pc,
                            ![i].read = read]
    /\ storage' = s.storage
    /\ uuidsGenerated' = s.uuidsGenerated
    /\ calls' = s.calls
    /\ consoleErrors' = s.consoleErrors
    /\ UNCHANGED <<testId, previewMode, assignedVariant, visitorId, connected,
                   rendered, autoRendered, lastOp, lastChanged, helperVars>>

\* tab i runs the getItem of a method
TabReads(i, key, pc) ==
    TabBecomes(i, TabThis(i, storage), pc, getItem(storage, key), tabs[i].rendered)

\* the component state after tab i has run method m on the value it read
\* under key: the method's setItem calls reach the storage of now
AfterRead(i, key, s) ==
    [s EXCEPT !.storage = WriteBack(storage, AsRead(storage, key, tabs[i].read), s.storage)]

InitTabs ==
    /\ storage = EmptyStorage
    /\ testId = undefined
    /\ previewMode = "Auto"
    /\ assignedVariant = undefined
    /\ visitorId = undefined
    /\ connected = FALSE
    /\ rendered = FALSE
    /\ autoRendered = FALSE
    /\ uuidsGenerated = 0
    /\ calls = EmptyBag
    /\ consoleErrors = EmptyBag
    /\ lastOp = "none"
    /\ lastChanged = {}
    /\ basePath = <<>>
    /\ helperFn = "none"
    /\ helperArg = JsUndefined
    /\ helperRet = NoCall
    /\ tabs \in [Tabs -> {NewTab(t) : t \in ConfiguredTestIds}]

\* connectedCallback, initializeVisitorId: the getItem
TabReadVisitorId(i) ==
    /\ tabs[i].pc = "new"
    /\ TabReads(i, STORAGE_KEY_VISITOR, "visitorRead")

\* connectedCallback, initializeVisitorId: after the getItem
TabSetVisitorId(i) ==
    /\ tabs[i].pc = "visitorRead"
    /\ LET seen == AsRead(storage, STORAGE_KEY_VISITOR, tabs[i].read)
           s == initializeVisitorId(TabThis(i, seen))
       IN /\ s.uuidsGenerated <= MaxUUIDs
          /\ TabBecomes(i, AfterRead(i, STORAGE_KEY_VISITOR, s), "visitorDone", null, FALSE)

\* connectedCallback, initializeAssignment: the getItem (the tab is in Auto
\* mode and has a testId, so the method reaches it)
TabReadAssignment(i) ==
    /\ tabs[i].pc = "visitorDone"
    /\ TabReads(i, STORAGE_KEY_ASSIGNMENT \o tabs[i].testId, "assignmentRead")

\* connectedCallback, initializeAssignment: after the getItem
TabSetAssignment(i) ==
    /\ tabs[i].pc = "assignmentRead"
    /\ \E coin \in BOOLEAN :
         LET key == STORAGE_KEY_ASSIGNMENT \o tabs[i].testId
             seen == AsRead(storage, key, tabs[i].read)
             s == initializeAssignment(TabThis(i, seen), coin)
         IN TabBecomes(i, AfterRead(i, key, s), "idle", null, FALSE)

\* renderedCallback, tryLogMetric('View'): the getItem
TabReadViewFlag(i) ==
    /\ tabs[i].pc = "idle"
    /\ Truthy(tabs[i].assignedVariant) /\ Truthy(tabs[i].testId)
    /\ TabReads(i, STORAGE_KEY_LOGGED \o tabs[i].testId \o "_" \o "View", "viewFlagRead")

\* renderedCallback, tryLogMetric('View'): after the getItem; the render pass
\* is complete
TabLogView(i) ==
    /\ tabs[i].pc = "viewFlagRead"
    /\ LET key == STORAGE_KEY_LOGGED \o tabs[i].testId \o "_" \o "View"
           seen == AsRead(storage, key, tabs[i].read)
           s == renderedCallback(TabThis(i, seen))
       IN /\ BagCardinality(s.calls) <= MaxCalls
          /\ TabBecomes(i, AfterRead(i, key, s), "idle", null, TRUE)

\* handleButtonClick, tryLogMetric('Click'): the getItem
TabReadClickFlag(i) ==
    /\ tabs[i].pc = "idle"
    /\ tabs[i].rendered
    /\ Truthy(tabs[i].assignedVariant) /\ Truthy(tabs[i].testId)
    /\ TabReads(i, STORAGE_KEY_LOGGED \o tabs[i].testId \o "_" \o "Click", "clickFlagRead")

\* handleButtonClick, tryLogMetric('Click'): after the getItem
TabLogClick(i) ==
    /\ tabs[i].pc = "clickFlagRead"
    /\ LET key == STORAGE_KEY_LOGGED \o tabs[i].testId \o "_" \o "Click"
           seen == AsRead(storage, key, tabs[i].read)
           s == handleButtonClick(TabThis(i, seen))
       IN /\ BagCardinality(s.calls) <= MaxCalls
          /\ TabBecomes(i, AfterRead(i, key, s), "idle", null, TRUE)

\* tab i loads its page again: a new instance, configured as before
TabReload(i) ==
    /\ tabs[i].pc = "idle"
    /\ tabs' = [tabs EXCEPT ![i] = NewTab(tabs[i].testId)]
    /\ UNCHANGED <<componentVars, helperVars>>

NextTabs ==
    \E i \in Tabs :
        \/ TabReadVisitorId(i)
        \/ TabSetVisitorId(i)
        \/ TabReadAssignment(i)
        \/ TabSetAssignment(i)
        \/ TabReadViewFlag(i)
        \/ TabLogView(i)
        \/ TabReadClickFlag(i)
        \/ TabLogClick(i)
        \/ TabReload(i)

SpecTabs == InitTabs /\ [][NextTabs]_vars

TypeOK ==
    /\ testId \in TestIds
    /\ previewMode \in PreviewModes
    /\ assignedVariant \in Variants \cup {undefined}
    /\ visitorId \in UUIDs \cup {undefined}
    /\ IsABag(calls)

(***************************************************************************)
(* Properties.  The storage keys are written as the interface names them:  *)
(* AB_TEST_ASSIGNMENT_<testId>, AB_LOGGED_<testId>_<actionType> and        *)
(* DXFORCE_VISITOR_ID.                                                     *)
(***************************************************************************)
AssignmentKey(t) == "AB_TEST_ASSIGNMENT_" \o t
LoggedKey(t, a) == "AB_LOGGED_" \o t \o "_" \o a
VisitorKey == "DXFORCE_VISITOR_ID"

\* the number of logAction calls made so far for test t and action type a
Sent(t, a) ==
    LET S == {c \in DOMAIN calls : c.payload.testId = t /\ c.payload.actionType = a}
    IN BagCardinality([c \in S |-> calls[c]])

\* the last step ran initializeAssignment (from connectedCallback or the setter)
ResolvedAssignment == lastOp \in {"connect", "setPreviewMode"}

\* apart from the visitor id, storage st2 holds what storage st1 holds
SameButVisitor(st1, st2) ==
    \A k \in ((DOMAIN st1) \cup (DOMAIN st2)) \ {VisitorKey} :
        getItem(st1, k) = getItem(st2, k)

\* C1: for every test and action type, logAction is called at most once over
\* any sequence of page loads, renders, clicks and previewMode changes; once
\* the flag AB_LOGGED_<testId>_<actionType> is stored no step calls it again
\* for that pair.
AtMostOneCallPerPair ==
    [][\A t \in ConfiguredTestIds, a \in ActionTypes :
          /\ Sent(t, a)' <= 1
          /\ Truthy(getItem(storage, LoggedKey(t, a))) => Sent(t, a)' = Sent(t, a)]_vars

\* a render pass in Auto mode that found the View flag of its test stored and
\* sent nothing
SuppressedView ==
    /\ lastOp = "render"
    /\ previewMode = "Auto"
    /\ Truthy(testId)
    /\ Truthy(assignedVariant)
    /\ lastChanged = {}
    /\ Sent(testId, "View") = 1

\* C2: once a value is stored under AB_TEST_ASSIGNMENT_<testId> no step changes
\* it, and every run of initializeAssignment in Auto mode for that test sets
\* assignedVariant to it.
StoredAssignmentIsKept ==
    [][\A t \in ConfiguredTestIds :
          Truthy(getItem(storage, AssignmentKey(t))) =>
              /\ getItem(storage', AssignmentKey(t)) = getItem(storage, AssignmentKey(t))
              /\ (ResolvedAssignment' /\ previewMode' = "Auto" /\ testId' = t)
                     => assignedVariant' = getItem(storage, AssignmentKey(t))]_vars

\* a new instance resolved a test whose variant B an earlier step had stored
ReturningVisitorResolved ==
    /\ lastOp = "connect"
    /\ previewMode = "Auto"
    /\ Truthy(testId)
    /\ AssignmentKey(testId) \notin lastChanged
    /\ getItem(storage, AssignmentKey(testId)) = "B"
    /\ assignedVariant = "B"

\* C3: a run of initializeAssignment with previewMode Force A (Force B) sets
\* assignedVariant to A (B) with or without a testId and whatever is stored,
\* and changes no storage key (in connectedCallback initializeVisitorId runs
\* first and may store the visitor id).
ForcedVariantBypassesStorage ==
    [][(ResolvedAssignment' /\ previewMode' \in {"Force A", "Force B"}) =>
          /\ assignedVariant' = (IF previewMode' = "Force A" THEN "A" ELSE "B")
          /\ lastOp' = "setPreviewMode" => storage' = storage
          /\ lastOp' = "connect" => SameButVisitor(storage, storage')]_vars

\* the setter forced A for a test whose stored variant is B
ForcedOverStored ==
    /\ lastOp = "setPreviewMode"
    /\ previewMode = "Force A"
    /\ Truthy(testId)
    /\ getItem(storage, AssignmentKey(testId)) = "B"
    /\ assignedVariant = "A"
    /\ lastChanged = {}

\* C4: a render pass or a click that runs while previewMode is not Auto, or no
\* testId is configured, or assignedVariant is unset, calls logAction for
\* nothing and leaves storage as it is.
NoReportOutsideAuto ==
    [][(/\ lastOp' \in {"render", "click"}
        /\ \/ previewMode # "Auto"
           \/ ~Truthy(testId)
           \/ ~Truthy(assignedVariant)) =>
          /\ calls' = calls
          /\ storage' = storage]_vars

\* a click in a forced preview of a configured test left its Click report unused
ClickInPreviewNotReported ==
    /\ lastOp = "click"
    /\ previewMode \in {"Force A", "Force B"}
    /\ Truthy(testId)
    /\ ~Truthy(getItem(storage, LoggedKey(testId, "Click")))
    /\ Sent(testId, "Click") = 0

\* the payloads of the calls in cs whose promise was rejected, as often as rejected
RejectedPayloads(cs) ==
    LET P == {c.payload : c \in {d \in DOMAIN cs : d.promise = "rejected"}}
    IN [p \in P |-> cs[[payload |-> p, promise |-> "rejected"]]]

\* C5: the failure of a logAction call changes neither storage nor the
\* instance: it is written to the console and nothing else; every call made
\* has its flag stored whatever became of it, so no step sends again the event
\* of a call that failed.
FailedCallIsNotRetried ==
    [][/\ (lastOp' = "none" /\ calls' # calls) =>
              UNCHANGED <<storage, testId, previewMode, assignedVariant, visitorId,
                          connected, rendered>>
       /\ \A c \in DOMAIN calls' :
              Truthy(getItem(storage', LoggedKey(c.payload.testId, c.payload.actionType)))
       /\ \A c \in DOMAIN calls :
              c.promise = "rejected" =>
                  Sent(c.payload.testId, c.payload.actionType)' = 1
       /\ consoleErrors' = RejectedPayloads(calls')]_vars

\* a render pass in Auto mode after the View call of its test had failed sent nothing
RenderAfterFailedView ==
    /\ lastOp = "render"
    /\ previewMode = "Auto"
    /\ Truthy(testId)
    /\ Truthy(assignedVariant)
    /\ lastChanged = {}
    /\ Sent(testId, "View") = 1
    /\ \E c \in DOMAIN calls :
           /\ c.promise = "rejected"
           /\ c.payload.testId = testId
           /\ c.payload.actionType = "View"
           /\ CopiesIn(c.payload, consoleErrors) = 1

\* C6: once DXFORCE_VISITOR_ID is stored no step changes it or generates another
\* identifier, and every activation leaves the instance with the stored value.
VisitorIdWrittenOnce ==
    [][/\ Truthy(getItem(storage, VisitorKey)) =>
              /\ getItem(storage', VisitorKey) = getItem(storage, VisitorKey)
              /\ uuidsGenerated' = uuidsGenerated
       /\ lastOp' = "connect" =>
              /\ Truthy(visitorId')
              /\ visitorId' = getItem(storage', VisitorKey)]_vars

\* the activation of a later instance read the identifier an earlier one stored
VisitorIdReused ==
    /\ lastOp = "connect"
    /\ VisitorKey \notin lastChanged
    /\ Truthy(visitorId)
    /\ visitorId = getItem(storage, VisitorKey)

\* C7: a run of initializeAssignment in Auto mode without a testId sets
\* assignedVariant to A and stores nothing (in connectedCallback the visitor id
\* may be stored first); a render pass or click without a testId calls
\* logAction for nothing.
NoTestIdResolvesToA ==
    [][/\ (ResolvedAssignment' /\ previewMode' = "Auto" /\ ~Truthy(testId')) =>
              /\ assignedVariant' = "A"
              /\ lastOp' = "setPreviewMode" => storage' = storage
              /\ lastOp' = "connect" => SameButVisitor(storage, storage')
       /\ (lastOp' \in {"render", "click"} /\ ~Truthy(testId)) => calls' = calls]_vars

\* the setter went back to Auto without a testId while another test's B is stored
AutoWithoutTestId ==
    /\ lastOp = "setPreviewMode"
    /\ previewMode = "Auto"
    /\ ~Truthy(testId)
    /\ assignedVariant = "A"
    /\ lastChanged = {}
    /\ \E t \in ConfiguredTestIds : getItem(storage, AssignmentKey(t)) = "B"

\* C8: a render pass (a click) of an instance in Auto mode with a testId whose
\* View (Click) flag is not stored calls logAction once for that test and
\* action type, whatever flags of other tests or of the other action type are
\* stored.
OwedReportIsSent ==
    [][/\ (/\ lastOp' = "render"
           /\ previewMode = "Auto"
           /\ Truthy(testId)
           /\ ~Truthy(getItem(storage, LoggedKey(testId, "View")))) =>
              Sent(testId, "View")' = Sent(testId, "View") + 1
       /\ (/\ lastOp' = "click"
           /\ previewMode = "Auto"
           /\ Truthy(testId)
           /\ ~Truthy(getItem(storage, LoggedKey(testId, "Click")))) =>
              Sent(testId, "Click")' = Sent(testId, "Click") + 1]_vars

\* a click stored the Click flag of a test whose View flag was stored already
ClickSentAfterView ==
    /\ lastOp = "click"
    /\ Truthy(testId)
    /\ lastChanged = {LoggedKey(testId, "Click")}
    /\ Truthy(getItem(storage, LoggedKey(testId, "View")))
    /\ Sent(testId, "Click") = 1

\* the value of the member called name in the member list ms, <<>> without one
MemberValue(ms, name) ==
    LET I == {i \in 1..Len(ms) : ms[i][1] = name}
    IN IF I = {} THEN <<>> ELSE ms[CHOOSE i \in I : \A j \in I : j <= i][2]

\* C9: extractContentKey never throws; it yields null for a missing reference;
\* for every key k it yields k for the object {contentKey: k}, for the JSON
\* text of that object and for the bare string k; and a structured reference
\* yields its contentKey, or else its id.
ContentKeyByFallbackOrder ==
    helperFn = "extractContentKey" =>
        /\ ~helperRet.threw
        /\ helperArg \in {JsUndefined, JsNull, JsString(<<>>)} => helperRet.value = JsNull
        /\ \A k \in Keys :
               helperArg \in {JsObject(ObjectOf(<<<<CONTENT_KEY, k>>>>)),
                              JsString(JsonStringify(<<<<CONTENT_KEY, k>>>>)),
                              JsString(k)}
                   => helperRet.value = JsString(k)
        /\ \A ms \in MemberLists :
               (/\ helperArg \in {JsObject(ObjectOf(ms)), JsString(JsonStringify(ms))}
                /\ MemberValue(ms, CONTENT_KEY) \o MemberValue(ms, ID) # <<>>)
                   => helperRet.value =
                          JsString(IF MemberValue(ms, CONTENT_KEY) # <<>>
                                   THEN MemberValue(ms, CONTENT_KEY)
                                   ELSE MemberValue(ms, ID))

\* cs without its leading slashes
RECURSIVE StripLeadingSlashes(_)
StripLeadingSlashes(cs) ==
    IF cs # <<>> /\ cs[1] = "/" THEN StripLeadingSlashes(Tail(cs)) ELSE cs

\* C10: resolveUrl yields "#" for an empty url, the url itself when it starts
\* with http:, https:, mailto: or tel:, and otherwise the site prefix, one
\* slash, and the url without the slashes it starts with.
ResolvedUrlHasOneLeadingSlash ==
    helperFn = "resolveUrl" =>
        /\ ~helperRet.threw
        /\ helperRet.value =
               IF helperArg = JsUndefined \/ helperArg = JsString(<<>>)
               THEN JsString(<<"#">>)
               ELSE IF \E p \in {<<"h", "t", "t", "p", ":">>,
                                 <<"h", "t", "t", "p", "s", ":">>,
                                 <<"m", "a", "i", "l", "t", "o", ":">>,
                                 <<"t", "e", "l", ":">>} : StartsWith(helperArg.chars, p)
               THEN helperArg
               ELSE JsString(basePath \o <<"/">> \o StripLeadingSlashes(helperArg.chars))

\* ---------------------------------------------------------------------------
\* C11: after initializeAssignment has run in Auto mode with a testId
\* configured, the value stored under AB_TEST_ASSIGNMENT_<testId> is 'A' or 'B'
\* and equals assignedVariant; a fresh draw is therefore in storage in the very
\* state the resolution leaves behind.
AutoResolutionIsStored ==
    (ResolvedAssignment /\ previewMode = "Auto" /\ Truthy(testId)) =>
        /\ getItem(storage, AssignmentKey(testId)) \in Variants
        /\ getItem(storage, AssignmentKey(testId)) = assignedVariant

\* a resolution has just drawn 'B' and written it, while the visitor's other
\* test holds a drawn 'A': both outcomes of the draw occur
FreshDrawsOfBoth ==
    /\ ResolvedAssignment
    /\ previewMode = "Auto"
    /\ Truthy(testId)
    /\ AssignmentKey(testId) \in lastChanged
    /\ assignedVariant = "B"
    /\ \E t \in ConfiguredTestIds :
          t # testId /\ getItem(storage, AssignmentKey(t)) = "A"

\* ---------------------------------------------------------------------------
\* C12: every assignment of previewMode re-runs the assignment resolution: it
\* leaves the forced variant for 'Force A' / 'Force B' without touching
\* storage, and for 'Auto' the stored assignment of the testId (a fresh stored
\* draw if there is none, 'A' without a testId); and no step of the component
\* ever changes an assignment that is stored, so after any number of forced
\* previews the return to 'Auto' yields the persisted value again.
PreviewModeChangeReResolves ==
    [][ /\ \A t \in ConfiguredTestIds :
             Truthy(getItem(storage, AssignmentKey(t))) =>
                 getItem(storage', AssignmentKey(t)) = getItem(storage, AssignmentKey(t))
        /\ lastOp' = "setPreviewMode" =>
             /\ previewMode' = "Force A" => (assignedVariant' = "A" /\ storage' = storage)
             /\ previewMode' = "Force B" => (assignedVariant' = "B" /\ storage' = storage)
             /\ (previewMode' = "Auto" /\ ~Truthy(testId)) =>
                    (assignedVariant' = "A" /\ storage' = storage)
             /\ (previewMode' = "Auto" /\ Truthy(testId)) =>
                    /\ assignedVariant' = getItem(storage', AssignmentKey(testId))
                    /\ Truthy(getItem(storage, AssignmentKey(testId))) => storage' = storage
      ]_vars

\* the setter has just put the instance in 'Auto' and the instance shows the 'B'
\* that was in storage before the step
BackToAutoShowsStored ==
    /\ lastOp = "setPreviewMode"
    /\ previewMode = "Auto"
    /\ Truthy(testId)
    /\ lastChanged = {}
    /\ assignedVariant = "B"
    /\ getItem(storage, AssignmentKey(testId)) = "B"

\* ---------------------------------------------------------------------------
\* C15: every dispatched View or Click call carries as variant the value that
\* is stored under AB_TEST_ASSIGNMENT_<testId> for the testId of its payload.
ReportedVariantIsStored ==
    \A c \in BagToSet(calls) :
        c.payload.variant = getItem(storage, AssignmentKey(c.payload.testId))

\* ---------------------------------------------------------------------------
\* The component when the host assigns testId only before activation, as it
\* does when the property comes from the page's configuration: the runs made of
\* page loads, activation, previewMode changes, render passes, clicks and call
\* failures.
Configure ==
    /\ ~connected
    /\ SetTestId

NextConfigured ==
    \/ Reload
    \/ Configure
    \/ SetPreviewMode
    \/ Connect
    \/ Render
    \/ Click
    \/ Reject

SpecConfigured == Init /\ [][NextConfigured]_vars

\* C16: for a testId, a Click call is dispatched only when a View call for the
\* same testId has been dispatched before; every click of the model follows a
\* render pass of the instance (Click requires rendered).
ClickOnlyAfterView ==
    \A t \in ConfiguredTestIds :
        Sent(t, "Click") >= 1 => Sent(t, "View") >= 1

\* C16, amended: a Click call is dispatched only after a View call for the same
\* testId when the click follows a render pass that the instance made in Auto
\* mode with the testId it has at the click.
ClickAfterAutoRenderFollowsView ==
    (/\ lastOp = "click"
     /\ Truthy(testId)
     /\ LoggedKey(testId, "Click") \in lastChanged
     /\ autoRendered)
        => Sent(testId, "View") >= 1

\* a click has just dispatched the Click call of a test whose View call was
\* dispatched by a render pass of this instance
ClickReportedAfterAutoRender ==
    /\ lastOp = "click"
    /\ Truthy(testId)
    /\ LoggedKey(testId, "Click") \in lastChanged
    /\ autoRendered
    /\ Sent(testId, "Click") = 1
    /\ Sent(testId, "View") = 1

PendingDraw(tbs, t) ==
    \E j \in Tabs :
        /\ tbs[j].testId = t
        /\ tbs[j].pc = "assignmentRead"
        /\ ~Truthy(tbs[j].read)

\* C13: with two tabs whose getItem and setItem of initializeAssignment
\* interleave, a tab that read no assignment draws and writes its own draw over
\* whatever is stored by then (the stored value is that of the last write); a
\* tab that read an assignment takes it and writes nothing; the assignedVariant
\* of a tab changes only by a resolution or page load of that tab, so a tab
\* that lost the race is not corrected; and once an assignment is stored and
\* no draw is pending it stays as it is, so that every later resolution reads
\* and returns it.  That the tabs can end up with different variants is shown
\* by the state DivergedTabs.
TabsLastWriteWins ==
    [][ /\ \A i \in Tabs :
             LET key == AssignmentKey(tabs[i].testId) IN
             /\ (tabs[i].pc = "visitorDone" /\ tabs'[i].pc = "assignmentRead") =>
                    (tabs'[i].read = getItem(storage, key) /\ storage' = storage)
             /\ (tabs[i].pc = "assignmentRead" /\ tabs'[i].pc = "idle") =>
                    /\ tabs'[i].assignedVariant \in Variants
                    /\ IF Truthy(tabs[i].read)
                       THEN tabs'[i].assignedVariant = tabs[i].read /\ storage' = storage
                       ELSE getItem(storage', key) = tabs'[i].assignedVariant
             /\ tabs'[i].assignedVariant # tabs[i].assignedVariant =>
                    \/ tabs[i].pc = "assignmentRead"
                    \/ tabs'[i].pc = "new"
        /\ \A t \in ConfiguredTestIds :
             (Truthy(getItem(storage, AssignmentKey(t))) /\ ~PendingDraw(tabs, t)) =>
                 /\ getItem(storage', AssignmentKey(t)) = getItem(storage, AssignmentKey(t))
                 /\ ~PendingDraw(tabs', t)
      ]_vars

\* both tabs have resolved the same test and hold different variants; storage
\* holds one of the two
DivergedTabs ==
    /\ tabs["tab1"].testId = tabs["tab2"].testId
    /\ tabs["tab1"].pc = "idle"
    /\ tabs["tab2"].pc = "idle"
    /\ tabs["tab1"].assignedVariant \in Variants
    /\ tabs["tab2"].assignedVariant \in Variants
    /\ tabs["tab1"].assignedVariant # tabs["tab2"].assignedVariant
    /\ getItem(storage, AssignmentKey(tabs["tab1"].testId)) = tabs["tab1"].assignedVariant

\* ---------------------------------------------------------------------------
\* C14: with two tabs whose getItem and setItem of tryLogMetric interleave, at
\* most one logAction call per test and action type is dispatched in total.
AtMostOneCallPerPairAcrossTabs ==
    \A t \in ConfiguredTestIds, a \in ActionTypes :
        Sent(t, a) <= 1

====
